---- MODULE Spec2Model ----
(***************************************************************************)
(* Model of the toy payment engine's ledger (src/src/account.rs):          *)
(* Bank::handle_transaction applied to a stream of Transaction values.     *)
(* Decimal amounts are integers counting ten-thousandths (4 fractional     *)
(* digits), so 10.0 is 100000 and 5.0 is 50000.                            *)
(***************************************************************************)
EXTENDS Integers, FiniteSets, Sequences, TLC

\* ---------------------------------------------------------------- bounds
MaxTx == 2
MaxSteps == 4
MaxScenarioSteps == 7
MaxWriteSteps == 3

\* The clients of the ledger's tests
ALICE == 1
BOB == 2

Clients == {ALICE, BOB}
Txs == 1..MaxTx
\* -5.0, 5.0 and 10.0 in ten-thousandths: the record source accepts any
\* Decimal, a negative one included
Amounts == {-50000, 50000, 100000}

\* ------------------------------------------------- transaction.rs values
TransactionData(client, tx) == [client |-> client, tx |-> tx]

TransactionAmountData(client, tx, amount) ==
    [client |-> client, tx |-> tx, amount |-> amount]

Transaction(kind, data) == [kind |-> kind, data |-> data]

client_id(transaction) == transaction.data.client

\* ------------------------------------------------------- account.rs types
Account == [available |-> 0, held |-> 0, locked |-> FALSE]

Bank == [accounts |-> << >>, deposits |-> << >>, disputes |-> {}]

\* BTreeMap::entry(k).or_default()
or_default(map, k) ==
    [x \in (DOMAIN map) \cup {k} |-> IF x \in DOMAIN map THEN map[x] ELSE Account]

\* BTreeMap::insert(k, v): the new value replaces an old one
insert(map, k, v) ==
    [x \in (DOMAIN map) \cup {k} |-> IF x = k THEN v ELSE map[x]]

\* BTreeMap::get(k): a sequence of length 0 (None) or 1 (Some)
get(map, k) == IF k \in DOMAIN map THEN << map[k] >> ELSE << >>

\* ------------------------------------ the five arms of handle_transaction
\* Variant: a record already kept at tx is not replaced
Deposit_FirstWriteWins(bank, data) ==
    [bank EXCEPT !.accounts[data.client].available = @ + data.amount,
                 !.deposits = IF data.tx \in DOMAIN bank.deposits
                              THEN bank.deposits
                              ELSE insert(bank.deposits, data.tx, data)]

Deposit(bank, data) ==
    [bank EXCEPT !.accounts[data.client].available = @ + data.amount,
                 !.deposits = insert(bank.deposits, data.tx, data)]

\* Variant: the funds check is strict
Withdrawal_Strict(bank, data) ==
    IF data.amount < bank.accounts[data.client].available
    THEN [bank EXCEPT !.accounts[data.client].available = @ - data.amount]
    ELSE bank

\* Variant: the funds are not checked
Withdrawal_Unchecked(bank, data) ==
    [bank EXCEPT !.accounts[data.client].available = @ - data.amount]

Withdrawal(bank, data) ==
    IF data.amount <= bank.accounts[data.client].available
    THEN [bank EXCEPT !.accounts[data.client].available = @ - data.amount]
    ELSE bank

\* Variant: the owner of the deposit is not compared with the disputing client
Dispute_AnyClient(bank, data) ==
    LET found == get(bank.deposits, data.tx) IN
    IF found # << >>
    THEN [bank EXCEPT !.accounts[data.client].available = @ - found[1].amount,
                      !.accounts[data.client].held = @ + found[1].amount,
                      !.disputes = @ \cup {data.tx}]
    ELSE bank

\* Variant: the id is marked disputed before the deposit is looked up
Dispute_MarksFirst(bank, data) ==
    LET found == get(bank.deposits, data.tx)
        marked == [bank EXCEPT !.disputes = @ \cup {data.tx}] IN
    IF found # << >> /\ data.client = found[1].client
    THEN [marked EXCEPT !.accounts[data.client].available = @ - found[1].amount,
                        !.accounts[data.client].held = @ + found[1].amount]
    ELSE marked

\* Variant: the funds are moved on the account of the deposit's owner
Dispute_DebitsOwner(bank, data) ==
    LET found == get(bank.deposits, data.tx) IN
    IF found # << >>
    THEN [bank EXCEPT !.accounts[found[1].client].available = @ - found[1].amount,
                      !.accounts[found[1].client].held = @ + found[1].amount,
                      !.disputes = @ \cup {data.tx}]
    ELSE bank

\* Variant: an id that is disputed is not disputed again
Dispute_OnceOnly(bank, data) ==
    LET found == get(bank.deposits, data.tx) IN
    IF found # << >> /\ data.client = found[1].client /\ data.tx \notin bank.disputes
    THEN [bank EXCEPT !.accounts[data.client].available = @ - found[1].amount,
                      !.accounts[data.client].held = @ + found[1].amount,
                      !.disputes = @ \cup {data.tx}]
    ELSE bank

Dispute(bank, data) ==
    LET found == get(bank.deposits, data.tx) IN
    IF found # << >> /\ data.client = found[1].client
    THEN [bank EXCEPT !.accounts[data.client].available = @ - found[1].amount,
                      !.accounts[data.client].held = @ + found[1].amount,
                      !.disputes = @ \cup {data.tx}]
    ELSE bank

\* Variant: the held funds are not released
Resolve_KeepsHeld(bank, data) ==
    IF data.tx \in bank.disputes
    THEN LET removed == [bank EXCEPT !.disputes = @ \ {data.tx}]
             found == get(bank.deposits, data.tx) IN
         IF found # << >> /\ data.client = found[1].client
         THEN [removed EXCEPT !.accounts[data.client].available = @ + found[1].amount]
         ELSE removed
    ELSE bank

\* Variant: the id is looked up in the disputed-set but not removed from it
Resolve_NoRemove(bank, data) ==
    IF data.tx \in bank.disputes
    THEN LET found == get(bank.deposits, data.tx) IN
         IF found # << >> /\ data.client = found[1].client
         THEN [bank EXCEPT !.accounts[data.client].held = @ - found[1].amount,
                           !.accounts[data.client].available = @ + found[1].amount]
         ELSE bank
    ELSE bank

\* Variant: the disputed-set is not consulted
Resolve_Unchecked(bank, data) ==
    LET removed == [bank EXCEPT !.disputes = @ \ {data.tx}]
        found == get(bank.deposits, data.tx) IN
    IF found # << >> /\ data.client = found[1].client
    THEN [removed EXCEPT !.accounts[data.client].held = @ - found[1].amount,
                         !.accounts[data.client].available = @ + found[1].amount]
    ELSE removed

\* Variant: the deposit record is dropped with the dispute
Resolve_DropsRecord(bank, data) ==
    IF data.tx \in bank.disputes
    THEN LET removed == [bank EXCEPT !.disputes = @ \ {data.tx}]
             found == get(bank.deposits, data.tx) IN
         IF found # << >> /\ data.client = found[1].client
         THEN [removed EXCEPT !.accounts[data.client].held = @ - found[1].amount,
                              !.accounts[data.client].available = @ + found[1].amount,
                              !.deposits = [tx \in (DOMAIN @) \ {data.tx} |-> @[tx]]]
         ELSE removed
    ELSE bank

\* Variant: the id leaves the disputed-set only when the client owns the deposit
Resolve_RemovesOnMatch(bank, data) ==
    IF data.tx \in bank.disputes
    THEN LET found == get(bank.deposits, data.tx) IN
         IF found # << >> /\ data.client = found[1].client
         THEN [bank EXCEPT !.disputes = @ \ {data.tx},
                           !.accounts[data.client].held = @ - found[1].amount,
                           !.accounts[data.client].available = @ + found[1].amount]
         ELSE bank
    ELSE bank

Resolve(bank, data) ==
    IF data.tx \in bank.disputes
    THEN LET removed == [bank EXCEPT !.disputes = @ \ {data.tx}]
             found == get(bank.deposits, data.tx) IN
         IF found # << >> /\ data.client = found[1].client
         THEN [removed EXCEPT !.accounts[data.client].held = @ - found[1].amount,
                              !.accounts[data.client].available = @ + found[1].amount]
         ELSE removed
    ELSE bank

\* Variant: the held funds go back to available, as in Resolve
Chargeback_Refunds(bank, data) ==
    IF data.tx \in bank.disputes
    THEN LET removed == [bank EXCEPT !.disputes = @ \ {data.tx}]
             found == get(bank.deposits, data.tx) IN
         IF found # << >> /\ data.client = found[1].client
         THEN [removed EXCEPT !.accounts[data.client].held = @ - found[1].amount,
                              !.accounts[data.client].available = @ + found[1].amount,
                              !.accounts[data.client].locked = TRUE]
         ELSE removed
    ELSE bank

\* Variant: the account is not locked
Chargeback_NoLock(bank, data) ==
    IF data.tx \in bank.disputes
    THEN LET removed == [bank EXCEPT !.disputes = @ \ {data.tx}]
             found == get(bank.deposits, data.tx) IN
         IF found # << >> /\ data.client = found[1].client
         THEN [removed EXCEPT !.accounts[data.client].held = @ - found[1].amount]
         ELSE removed
    ELSE bank

\* Variant: the held funds stay held
Chargeback_KeepsHeld(bank, data) ==
    IF data.tx \in bank.disputes
    THEN LET removed == [bank EXCEPT !.disputes = @ \ {data.tx}]
             found == get(bank.deposits, data.tx) IN
         IF found # << >> /\ data.client = found[1].client
         THEN [removed EXCEPT !.accounts[data.client].locked = TRUE]
         ELSE removed
    ELSE bank

\* Variant: the deposit record goes with the funds
Chargeback_DropsRecord(bank, data) ==
    IF data.tx \in bank.disputes
    THEN LET removed == [bank EXCEPT !.disputes = @ \ {data.tx}]
             found == get(bank.deposits, data.tx) IN
         IF found # << >> /\ data.client = found[1].client
         THEN [removed EXCEPT !.accounts[data.client].held = @ - found[1].amount,
                              !.accounts[data.client].locked = TRUE,
                              !.deposits = [tx \in (DOMAIN @) \ {data.tx} |-> @[tx]]]
         ELSE removed
    ELSE bank

Chargeback(bank, data) ==
    IF data.tx \in bank.disputes
    THEN LET removed == [bank EXCEPT !.disputes = @ \ {data.tx}]
             found == get(bank.deposits, data.tx) IN
         IF found # << >> /\ data.client = found[1].client
         THEN [removed EXCEPT !.accounts[data.client].held = @ - found[1].amount,
                              !.accounts[data.client].locked = TRUE]
         ELSE removed
    ELSE bank

\* Variant: the lock is not checked
handle_transaction_NoLockCheck(bank, transaction) ==
    LET entered == [bank EXCEPT !.accounts = or_default(@, client_id(transaction))] IN
    CASE transaction.kind = "Deposit" -> Deposit(entered, transaction.data)
      [] transaction.kind = "Withdrawal" -> Withdrawal(entered, transaction.data)
      [] transaction.kind = "Dispute" -> Dispute(entered, transaction.data)
      [] transaction.kind = "Resolve" -> Resolve(entered, transaction.data)
      [] transaction.kind = "Chargeback" -> Chargeback(entered, transaction.data)

\* Variant: the lock is checked for deposits and withdrawals only
handle_transaction_LockOnAmounts(bank, transaction) ==
    LET entered == [bank EXCEPT !.accounts = or_default(@, client_id(transaction))] IN
    IF /\ entered.accounts[client_id(transaction)].locked
       /\ transaction.kind \in {"Deposit", "Withdrawal"}
    THEN entered
    ELSE CASE transaction.kind = "Deposit" -> Deposit(entered, transaction.data)
           [] transaction.kind = "Withdrawal" -> Withdrawal(entered, transaction.data)
           [] transaction.kind = "Dispute" -> Dispute(entered, transaction.data)
           [] transaction.kind = "Resolve" -> Resolve(entered, transaction.data)
           [] transaction.kind = "Chargeback" -> Chargeback(entered, transaction.data)

\* Variant: only a deposit creates the account of a client that has none
handle_transaction_EntryOnDeposit(bank, transaction) ==
    LET entered == [bank EXCEPT !.accounts = or_default(@, client_id(transaction))] IN
    IF /\ transaction.kind # "Deposit"
       /\ client_id(transaction) \notin DOMAIN bank.accounts
    THEN bank
    ELSE IF entered.accounts[client_id(transaction)].locked
    THEN entered
    ELSE CASE transaction.kind = "Deposit" -> Deposit(entered, transaction.data)
           [] transaction.kind = "Withdrawal" -> Withdrawal(entered, transaction.data)
           [] transaction.kind = "Dispute" -> Dispute(entered, transaction.data)
           [] transaction.kind = "Resolve" -> Resolve(entered, transaction.data)
           [] transaction.kind = "Chargeback" -> Chargeback(entered, transaction.data)

handle_transaction(bank, transaction) ==
    LET entered == [bank EXCEPT !.accounts = or_default(@, client_id(transaction))] IN
    IF entered.accounts[client_id(transaction)].locked
    THEN entered
    ELSE CASE transaction.kind = "Deposit" -> Deposit(entered, transaction.data)
           [] transaction.kind = "Withdrawal" -> Withdrawal(entered, transaction.data)
           [] transaction.kind = "Dispute" -> Dispute(entered, transaction.data)
           [] transaction.kind = "Resolve" -> Resolve(entered, transaction.data)
           [] transaction.kind = "Chargeback" -> Chargeback(entered, transaction.data)

\* ------------------------------------------------------------ Bank::write
\* Fractional digits of a Decimal of the ledger
Scale == 4

RECURSIVE Pow10(_)
Pow10(n) == IF n = 0 THEN 1 ELSE 10 * Pow10(n - 1)

Abs(n) == IF n < 0 THEN 0 - n ELSE n

\* Decimal::round_dp(dp): to dp fractional digits, a midpoint to the even
\* neighbour
round_dp(decimal, dp) ==
    LET unit == Pow10(Scale - dp)
        q == Abs(decimal) \div unit
        r == Abs(decimal) % unit
        up == (2 * r > unit) \/ (2 * r = unit /\ q % 2 = 1)
        m == (IF up THEN q + 1 ELSE q) * unit IN
    IF decimal < 0 THEN 0 - m ELSE m

\* Decimal::to_string: the sign, the integer digits and the fractional
\* digits (as a count of ten-thousandths)
to_string(decimal) ==
    [negative |-> decimal < 0,
     integer |-> Abs(decimal) \div Pow10(Scale),
     fraction |-> Abs(decimal) % Pow10(Scale)]

\* Variant: total is the available funds
from_account_TotalIsAvailable(client, account) ==
    [client |-> client,
     available |-> to_string(round_dp(account.available, 4)),
     held |-> to_string(round_dp(account.held, 4)),
     total |-> to_string(round_dp(account.available, 4)),
     locked |-> account.locked]

from_account(client, account) ==
    [client |-> client,
     available |-> to_string(round_dp(account.available, 4)),
     held |-> to_string(round_dp(account.held, 4)),
     total |-> to_string(round_dp(account.available, 4) + round_dp(account.held, 4)),
     locked |-> account.locked]

\* The keys of a BTreeMap in the order of its iteration
RECURSIVE iter(_)
iter(keys) ==
    IF keys = {} THEN << >>
    ELSE LET first == CHOOSE k \in keys : \A other \in keys : k <= other IN
         << first >> \o iter(keys \ {first})

\* The rows the csv writer is given, one serialize call per account
write(bank) ==
    LET order == iter(DOMAIN bank.accounts) IN
    [i \in 1..Len(order) |-> from_account(order[i], bank.accounts[order[i]])]

\* ----------------------------------------------------- TransactionIterator
\* Rows one run reads at most
MaxRecords == 2

\* std::result::Result
Ok(value) == [ok |-> TRUE, value |-> value]

Err(error) == [ok |-> FALSE, error |-> error]

\* std::option::Option
None == [some |-> FALSE]

Some(result) == [some |-> TRUE, result |-> result]

\* A field of a csv::StringRecord: lead whitespace characters, the text, trail
\* whitespace characters. The text of a client or tx field is the number it
\* spells; the text of an amount field is << >> when the field is empty and
\* << the Decimal it spells >> otherwise.
Field(text, lead, trail) == [text |-> text, lead |-> lead, trail |-> trail]

\* A Decimal as the input spells it: mantissa / 10^scale
Decimal(mantissa, scale) == [mantissa |-> mantissa, scale |-> scale]

\* StringRecord::trim
trim(record) == [i \in DOMAIN record |-> Field(record[i].text, 0, 0)]

\* &str == &str for a field
is(field, str) == field = Field(str, 0, 0)

\* StringRecord == [&str]
eq(record, strs) ==
    /\ Len(record) = Len(strs)
    /\ \A i \in DOMAIN record : is(record[i], strs[i])

EXPECTED_HEADER == << "type", "client", "tx", "amount" >>

\* Variant: the header is compared as it was read
from_reader_NoTrim(headers) ==
    IF ~headers.ok THEN Err(headers.error)
    ELSE LET csv_header == headers.value IN
         IF eq(csv_header, EXPECTED_HEADER)
         THEN Ok([csv_header |-> csv_header])
         ELSE Err("InvalidHeader")

\* headers: what reader.headers() returned
from_reader(headers) ==
    IF ~headers.ok THEN Err(headers.error)
    ELSE LET csv_header == trim(headers.value) IN
         IF eq(csv_header, EXPECTED_HEADER)
         THEN Ok([csv_header |-> csv_header])
         ELSE Err("InvalidHeader")

\* Variant: a dropped digit of five or more rounds away from zero
round_dp_with_strategy_HalfUp(decimal, dp) ==
    IF decimal.scale <= dp THEN decimal
    ELSE LET unit == Pow10(decimal.scale - dp)
             q == Abs(decimal.mantissa) \div unit
             r == Abs(decimal.mantissa) % unit
             m == IF 2 * r >= unit THEN q + 1 ELSE q IN
         Decimal(IF decimal.mantissa < 0 THEN 0 - m ELSE m, dp)

\* Decimal::round_dp_with_strategy(dp, RoundingStrategy::ToZero)
round_dp_with_strategy(decimal, dp) ==
    IF decimal.scale <= dp THEN decimal
    ELSE LET unit == Pow10(decimal.scale - dp)
             q == Abs(decimal.mantissa) \div unit IN
         Decimal(IF decimal.mantissa < 0 THEN 0 - q ELSE q, dp)

\* The field of the record under the header's column of that name
column(record, header, name) ==
    record[CHOOSE i \in DOMAIN header : header[i].text = name]

\* StringRecord::deserialize(Some(header)) into TransactionData or, with
\* amount, TransactionAmountData: a number field parses when no whitespace
\* surrounds it, an amount field when it also is not empty
deserialize(record, header, with_amount) ==
    LET c == column(record, header, "client")
        tx == column(record, header, "tx")
        amount == column(record, header, "amount")
        parsed(field) == field.lead = 0 /\ field.trail = 0 IN
    IF ~(parsed(c) /\ parsed(tx)) THEN Err("CSV")
    ELSE IF ~with_amount THEN Ok(TransactionData(c.text, tx.text))
    ELSE IF ~(parsed(amount) /\ amount.text # << >>) THEN Err("CSV")
    ELSE Ok(TransactionAmountData(c.text, tx.text, amount.text[1]))

\* The transaction kind of a record type
Variant(record_type) ==
    CASE record_type = "deposit" -> "Deposit"
      [] record_type = "withdrawal" -> "Withdrawal"
      [] record_type = "dispute" -> "Dispute"
      [] record_type = "resolve" -> "Resolve"
      [] record_type = "chargeback" -> "Chargeback"

from_record(record, header) ==
    IF Len(record) = 0 THEN Err("InvalidRecordType")
    ELSE LET record_type == record[1]
             known == \E str \in {"deposit", "withdrawal", "dispute",
                                  "resolve", "chargeback"} : is(record_type, str)
             amount_mut == is(record_type, "deposit") \/ is(record_type, "withdrawal")
             data == deserialize(record, header, amount_mut) IN
         IF ~known THEN Err("InvalidRecordType")
         ELSE IF ~data.ok THEN data
         ELSE IF amount_mut
              THEN Ok(Transaction(Variant(record_type.text),
                        [data.value EXCEPT
                           !.amount = round_dp_with_strategy(@, 4)]))
              ELSE Ok(Transaction(Variant(record_type.text), data.value))

\* Iterator::next. read_record: what reader.read_record returned, Ok(<< >>)
\* at the end of the input, Ok(<< record >>) with the record it read
next(read_record, csv_header) ==
    IF ~read_record.ok THEN Some(Err(read_record.error))
    ELSE IF read_record.value = << >> THEN None
    ELSE Some(from_record(trim(read_record.value[1]), csv_header))

\* The header lines of the inputs: the expected one, that of
\* errornous_header_test, a capitalised one and a short one, each also with
\* a whitespace character around every field
HeaderWords ==
    { EXPECTED_HEADER,
      << "type", "tx", "client", "amount" >>,
      << "Type", "Client", "Tx", "Amount" >>,
      << "type", "client", "tx" >> }

Headers ==
    { [i \in DOMAIN words |-> Field(words[i], pad, pad)] :
        words \in HeaderWords, pad \in {0, 1} }

\* Amount fields: empty, 1.1, 1.1234, 1.12345, 1.12346, -1.12346
AmountTexts ==
    { << >>, << Decimal(11, 1) >>, << Decimal(11234, 4) >>,
      << Decimal(112345, 5) >>, << Decimal(112346, 5) >>,
      << Decimal(0 - 112346, 5) >> }

\* The rows of the inputs, of client 1 and tx 1
Records ==
    { << Field(type, pad, pad), Field(ALICE, pad, pad), Field(1, pad, pad),
         Field(amount, IF amount = << >> THEN 0 ELSE pad, 0) >> :
        type \in {"deposit", "withdrawal", "dispute", "resolve", "chargeback",
                  "transfer"},
        amount \in AmountTexts, pad \in {0, 1} }

\* ------------------------------------------------------------------ state
\* accounts, deposits, disputes: the fields of Bank.
\* written: what Bank::write gave the writer, << >> before the call.
\* reader: the csv::Reader, that is the header line of its input, how many
\* times read_record was called, whether it met the end of the input, and
\* (history) the record it read last.
\* iterator: what from_reader returned, << >> before the call.
\* item: what Iterator::next returned last, << >> before the first call.
\* last, before, chain, chargedback, closed, net, recorded, reused,
\* scenario, stranded, steps:
\* history of the run, kept to state the properties; no operation of the
\* ledger reads them.
VARIABLES accounts, deposits, disputes, written, reader, iterator, item,
          last, before, chain, chargedback, closed, net, recorded, reused,
          scenario, stranded, steps

vars == << accounts, deposits, disputes, written, reader, iterator, item,
           last, before, chain, chargedback, closed, net, recorded, reused,
           scenario, stranded, steps >>

self == [accounts |-> accounts, deposits |-> deposits, disputes |-> disputes]

NoTransaction == Transaction("None", TransactionData(0, 0))

\* What the ledger held for a client and a transaction id
Snapshot(bank, client, tx) ==
    [exists |-> client \in DOMAIN bank.accounts,
     account |-> or_default(bank.accounts, client)[client],
     disputed |-> tx \in bank.disputes,
     deposit |-> get(bank.deposits, tx)]

\* What the ledger held for the last transaction's client and id before it
pre == Snapshot(before, client_id(last), last.data.tx)

\* depth: how many disputes of (client, tx) in a row the last one ends;
\* base_available, base_held: the balances before the first of them;
\* rounds: how many times Dispute, Resolve of (client, tx) came right before
NoChain ==
    [phase |-> "None", client |-> 0, tx |-> 0, amount |-> 0,
     available |-> 0, held |-> 0, fresh |-> FALSE,
     depth |-> 0, base_available |-> 0, base_held |-> 0, rounds |-> 0]

\* The transaction is a dispute of an unlocked client on its own deposit
OwnDispute(bank, transaction) ==
    LET s == Snapshot(bank, client_id(transaction), transaction.data.tx) IN
    /\ transaction.kind = "Dispute"
    /\ ~s.account.locked
    /\ s.deposit # << >>
    /\ s.deposit[1].client = client_id(transaction)

\* The run ends with Deposit(c, tx, A) on an unlocked account with held = 0
FreshDeposit(transaction) ==
    /\ last.kind = "Deposit"
    /\ last.data.client = client_id(transaction)
    /\ last.data.tx = transaction.data.tx
    /\ ~pre.account.locked
    /\ pre.account.held = 0

\* Follows Dispute(c, tx) and what comes right after it
NextChain(bank, transaction) ==
    LET s == Snapshot(bank, client_id(transaction), transaction.data.tx)
        same == transaction.data = TransactionData(chain.client, chain.tx)
        again == same /\ chain.phase = "Disputed"
        round == same /\ chain.phase \in {"Disputed", "Resolved"} IN
    IF OwnDispute(bank, transaction)
    THEN [phase |-> "Disputed", client |-> client_id(transaction),
          tx |-> transaction.data.tx,
          amount |-> IF round THEN chain.amount ELSE s.deposit[1].amount,
          available |-> s.account.available, held |-> s.account.held,
          fresh |-> FreshDeposit(transaction),
          depth |-> IF again THEN chain.depth + 1 ELSE 1,
          base_available |-> IF again THEN chain.base_available
                             ELSE s.account.available,
          base_held |-> IF again THEN chain.base_held ELSE s.account.held,
          rounds |-> IF round THEN chain.rounds ELSE 0]
    ELSE IF /\ chain.phase = "Disputed"
            /\ transaction.kind \in {"Resolve", "Chargeback"}
            /\ same
         THEN IF transaction.kind = "Resolve"
              THEN [chain EXCEPT !.phase = "Resolved", !.rounds = @ + 1]
              ELSE [chain EXCEPT !.phase = "Chargedback"]
         ELSE NoChain

\* The transaction is a resolve or a chargeback of an unlocked client on a
\* disputed deposit of another client
ForeignSettle(bank, transaction) ==
    LET s == Snapshot(bank, client_id(transaction), transaction.data.tx) IN
    /\ transaction.kind \in {"Resolve", "Chargeback"}
    /\ ~s.account.locked
    /\ s.disputed
    /\ s.deposit # << >>
    /\ s.deposit[1].client # client_id(transaction)

\* The transaction is a chargeback of an unlocked client on its own disputed
\* deposit
OwnChargeback(bank, transaction) ==
    LET s == Snapshot(bank, client_id(transaction), transaction.data.tx) IN
    /\ transaction.kind = "Chargeback"
    /\ ~s.account.locked
    /\ s.disputed
    /\ s.deposit # << >>
    /\ s.deposit[1].client = client_id(transaction)

\* For every id a chargeback succeeded on, the client of the last such
\* chargeback
NextChargedback(bank, transaction) ==
    IF OwnChargeback(bank, transaction)
    THEN insert(chargedback, transaction.data.tx, client_id(transaction))
    ELSE chargedback

\* The transaction is a deposit of an unlocked client under an id that is in
\* the disputed-set
DepositOnDisputed(bank, transaction) ==
    LET s == Snapshot(bank, client_id(transaction), transaction.data.tx) IN
    /\ transaction.kind = "Deposit"
    /\ ~s.account.locked
    /\ s.disputed

\* The ids a resolve or chargeback of another client took out of dispute and
\* no dispute has named since
NextStranded(bank, transaction) ==
    IF ForeignSettle(bank, transaction)
    THEN stranded \cup {transaction.data.tx}
    ELSE IF transaction.kind = "Dispute"
         THEN stranded \ {transaction.data.tx}
         ELSE stranded

\* Change of available + held of the transaction's client that the
\* transaction stands for: an applied deposit, a successful withdrawal, a
\* successful chargeback
NetChange(bank, transaction) ==
    LET s == Snapshot(bank, client_id(transaction), transaction.data.tx) IN
    IF s.account.locked THEN 0
    ELSE CASE transaction.kind = "Deposit" -> transaction.data.amount
           [] transaction.kind = "Withdrawal" ->
                IF transaction.data.amount <= s.account.available
                THEN 0 - transaction.data.amount ELSE 0
           [] transaction.kind = "Chargeback" ->
                IF /\ s.disputed
                   /\ s.deposit # << >>
                   /\ s.deposit[1].client = client_id(transaction)
                THEN 0 - s.deposit[1].amount ELSE 0
           [] OTHER -> 0

\* The run of the specification's concrete scenario (client 1)
Scenario ==
    << Transaction("Deposit", TransactionAmountData(1, 1, 100000)),
       Transaction("Deposit", TransactionAmountData(1, 2, 100000)),
       Transaction("Dispute", TransactionData(1, 2)),
       Transaction("Resolve", TransactionData(1, 2)),
       Transaction("Dispute", TransactionData(1, 2)),
       Transaction("Chargeback", TransactionData(1, 2)),
       Transaction("Deposit", TransactionAmountData(1, 3, 50000)) >>

ScenarioClients == {client_id(Scenario[i]) : i \in DOMAIN Scenario}

ScenarioTxs == {Scenario[i].data.tx : i \in DOMAIN Scenario}

ScenarioAmounts ==
    {Scenario[i].data.amount : i \in {j \in DOMAIN Scenario : Scenario[j].kind = "Deposit"}}

\* How many transactions of Scenario the run so far consists of, -1 when the
\* run is not a prefix of Scenario
NextScenario(transaction) ==
    IF /\ scenario >= 0
       /\ scenario < Len(Scenario)
       /\ transaction = Scenario[scenario + 1]
    THEN scenario + 1
    ELSE -1

\* The reader over an input with that header line, nothing read yet
Reader(header) ==
    [header |-> header, read |-> 0, eof |-> FALSE, record |-> << >>]

\* Bank::default(), no output, history empty
InitBank ==
    /\ accounts = Bank.accounts
    /\ deposits = Bank.deposits
    /\ disputes = Bank.disputes
    /\ written = << >>
    /\ last = NoTransaction
    /\ before = Bank
    /\ chain = NoChain
    /\ chargedback = [tx \in {} |-> 0]
    /\ closed = {}
    /\ net = [c \in {} |-> 0]
    /\ recorded = [tx \in {} |-> 0]
    /\ reused = FALSE
    /\ scenario = 0
    /\ stranded = {}
    /\ steps = 0

Init ==
    /\ InitBank
    /\ reader = Reader([i \in DOMAIN EXPECTED_HEADER |-> Field(EXPECTED_HEADER[i], 1, 0)])
    /\ iterator = << >>
    /\ item = << >>

Apply(transaction, bound) ==
    /\ steps < bound
    /\ LET after == handle_transaction(self, transaction) IN
         /\ accounts' = after.accounts
         /\ deposits' = after.deposits
         /\ disputes' = after.disputes
    /\ written' = written
    /\ UNCHANGED << reader, iterator, item >>
    /\ last' = transaction
    /\ before' = self
    /\ chain' = NextChain(self, transaction)
    /\ chargedback' = NextChargedback(self, transaction)
    /\ closed' = IF /\ chain'.phase = "Chargedback"
                    /\ chain'.fresh
                 THEN closed \cup {chain'.client} ELSE closed
    /\ net' = [c \in (DOMAIN net) \cup {client_id(transaction)} |->
                 (IF c \in DOMAIN net THEN net[c] ELSE 0)
                 + (IF c = client_id(transaction)
                    THEN NetChange(self, transaction) ELSE 0)]
    /\ recorded' = IF /\ transaction.kind = "Deposit"
                      /\ ~Snapshot(self, client_id(transaction), transaction.data.tx).account.locked
                   THEN [tx \in (DOMAIN recorded) \cup {transaction.data.tx} |->
                           IF tx = transaction.data.tx
                           THEN transaction.data ELSE recorded[tx]]
                   ELSE recorded
    /\ reused' = (reused \/ DepositOnDisputed(self, transaction))
    /\ scenario' = NextScenario(transaction)
    /\ stranded' = NextStranded(self, transaction)
    /\ steps' = steps + 1

ApplyDeposit(Cs, Ts, As, bound) ==
    \E c \in Cs, tx \in Ts, a \in As :
        Apply(Transaction("Deposit", TransactionAmountData(c, tx, a)), bound)

ApplyWithdrawal(Cs, Ts, As, bound) ==
    \E c \in Cs, tx \in Ts, a \in As :
        Apply(Transaction("Withdrawal", TransactionAmountData(c, tx, a)), bound)

ApplyDispute(Cs, Ts, bound) ==
    \E c \in Cs, tx \in Ts :
        Apply(Transaction("Dispute", TransactionData(c, tx)), bound)

ApplyResolve(Cs, Ts, bound) ==
    \E c \in Cs, tx \in Ts :
        Apply(Transaction("Resolve", TransactionData(c, tx)), bound)

ApplyChargeback(Cs, Ts, bound) ==
    \E c \in Cs, tx \in Ts :
        Apply(Transaction("Chargeback", TransactionData(c, tx)), bound)

Next ==
    \/ ApplyDeposit(Clients, Txs, Amounts, MaxSteps)
    \/ ApplyWithdrawal(Clients, Txs, Amounts, MaxSteps)
    \/ ApplyDispute(Clients, Txs, MaxSteps)
    \/ ApplyResolve(Clients, Txs, MaxSteps)
    \/ ApplyChargeback(Clients, Txs, MaxSteps)

Spec == Init /\ [][Next]_vars

\* Runs of one client over the ids and amounts of Scenario
NextOfScenario ==
    \/ ApplyDeposit(ScenarioClients, ScenarioTxs, ScenarioAmounts, MaxScenarioSteps)
    \/ ApplyWithdrawal(ScenarioClients, ScenarioTxs, ScenarioAmounts, MaxScenarioSteps)
    \/ ApplyDispute(ScenarioClients, ScenarioTxs, MaxScenarioSteps)
    \/ ApplyResolve(ScenarioClients, ScenarioTxs, MaxScenarioSteps)
    \/ ApplyChargeback(ScenarioClients, ScenarioTxs, MaxScenarioSteps)

SpecScenario == Init /\ [][NextOfScenario]_vars

\* Transactions a run of SpecReuse consists of at most
MaxReuseSteps == 5

\* The one transaction id the transactions of SpecReuse name
ReusedTxs == {CHOOSE tx \in Txs : \A other \in Txs : tx <= other}

\* The amounts above zero
PositiveAmounts == {amount \in Amounts : amount > 0}

\* Runs of both clients that reuse one transaction id, with amounts above
\* zero
NextReuse ==
    \/ ApplyDeposit(Clients, ReusedTxs, PositiveAmounts, MaxReuseSteps)
    \/ ApplyWithdrawal(Clients, ReusedTxs, PositiveAmounts, MaxReuseSteps)
    \/ ApplyDispute(Clients, ReusedTxs, MaxReuseSteps)
    \/ ApplyResolve(Clients, ReusedTxs, MaxReuseSteps)
    \/ ApplyChargeback(Clients, ReusedTxs, MaxReuseSteps)

SpecReuse == Init /\ [][NextReuse]_vars

\* Bank::write, called once
Write ==
    /\ written = << >>
    /\ written' = << write(self) >>
    /\ UNCHANGED << accounts, deposits, disputes, reader, iterator, item,
                    last, before, chain, chargedback, closed, net, recorded,
                    reused, scenario, stranded, steps >>

\* The transactions of the input, then the output
NextWrite ==
    \/ written = << >> /\ ApplyDeposit(Clients, Txs, Amounts, MaxWriteSteps)
    \/ written = << >> /\ ApplyWithdrawal(Clients, Txs, Amounts, MaxWriteSteps)
    \/ written = << >> /\ ApplyDispute(Clients, Txs, MaxWriteSteps)
    \/ written = << >> /\ ApplyResolve(Clients, Txs, MaxWriteSteps)
    \/ written = << >> /\ ApplyChargeback(Clients, Txs, MaxWriteSteps)
    \/ Write

SpecWrite == Init /\ [][NextWrite]_vars

\* The ledger and its history, which the reader never touches
bank_vars ==
    << accounts, deposits, disputes, written, last, before, chain, chargedback,
       closed, net, recorded, reused, scenario, stranded, steps >>

\* Any input of Headers
InitReader ==
    /\ InitBank
    /\ \E header \in Headers : reader = Reader(header)
    /\ iterator = << >>
    /\ item = << >>

\* TransactionIterator::from_reader: reader.headers() reads the header line
\* or fails
FromReader ==
    /\ iterator = << >>
    /\ \E headers \in {Ok(reader.header), Err("IO")} :
          iterator' = << from_reader(headers) >>
    /\ UNCHANGED << reader, item >>
    /\ UNCHANGED bank_vars

\* Iterator::next on the iterator from_reader returned: read_record reads a
\* record, meets the end of the input, or fails
NextItem ==
    /\ iterator # << >>
    /\ iterator[1].ok
    /\ reader.read < MaxRecords
    /\ \E read_record \in {Ok(<< record >>) : record \in Records}
                           \cup {Ok(<< >>), Err("IO")} :
          /\ reader.eof => read_record = Ok(<< >>)
          /\ item' = << next(read_record, iterator[1].value.csv_header) >>
          /\ reader' = [reader EXCEPT
                          !.read = @ + 1,
                          !.eof = @ \/ read_record = Ok(<< >>),
                          !.record = IF read_record.ok THEN read_record.value
                                     ELSE << >>]
    /\ UNCHANGED iterator
    /\ UNCHANGED bank_vars

NextReader ==
    \/ FromReader
    \/ NextItem

SpecReader == InitReader /\ [][NextReader]_vars

TypeOK ==
    /\ DOMAIN accounts \subseteq Clients
    /\ DOMAIN deposits \subseteq Txs \cup ScenarioTxs
    /\ disputes \subseteq DOMAIN deposits
    /\ \A c \in DOMAIN accounts : accounts[c].locked \in BOOLEAN

\* ----------------------------------------------------------- properties
\* The client and the account of the last transaction
client == client_id(last)

account == accounts[client]

\* Every account the ledger held before the last transaction is as it was
AccountsKept ==
    \A c \in DOMAIN before.accounts :
        c \in DOMAIN accounts /\ accounts[c] = before.accounts[c]

\* The last transaction changed no account but, at most, created its
\* client's account with zero balances, unlocked
NoBalanceChanged ==
    /\ AccountsKept
    /\ DOMAIN accounts = (DOMAIN before.accounts) \cup {client}
    /\ account = IF pre.exists
                 THEN before.accounts[client]
                 ELSE [available |-> 0, held |-> 0, locked |-> FALSE]

\* C1: a transaction of any kind whose client's account is locked at call
\* time leaves the whole ledger (every account, the deposit index, the
\* disputed-set) as it was.
C1_LockedClientNoOp ==
    (last.kind # "None" /\ pre.account.locked) => self = before

\* A deposit was sent by a client whose account was locked
C1_Witness ==
    /\ last.kind = "Deposit"
    /\ pre.account.locked
    /\ last.data.tx \notin DOMAIN deposits

\* C2: for every client, available + held is the sum of its applied deposits
\* minus its successful withdrawals minus the deposits its successful
\* chargebacks removed (net); a dispute or a resolve changes available + held
\* of no account.
C2_BalanceIsNetOfDeposits ==
    /\ DOMAIN net = DOMAIN accounts
    /\ \A c \in DOMAIN accounts :
           accounts[c].available + accounts[c].held = net[c]
    /\ last.kind \in {"Dispute", "Resolve"} =>
           \A c \in DOMAIN accounts :
               accounts[c].available + accounts[c].held
                   = IF c \in DOMAIN before.accounts
                     THEN before.accounts[c].available + before.accounts[c].held
                     ELSE 0

\* A deposit of 10.0, a withdrawal of 5.0 and a chargeback of the deposit
\* leave the client with -5.0
C2_Witness ==
    /\ last.kind = "Chargeback"
    /\ ~pre.account.locked
    /\ account.locked
    /\ pre.deposit # << >>
    /\ pre.deposit[1].amount = 100000
    /\ account.available + account.held = -50000

\* C3: a withdrawal on an unlocked account leaves available as it was when
\* amount > available and else sets it to available - amount, so available
\* is >= 0 after every withdrawal that changed it; held, locked, the deposit
\* index, the disputed-set and the other accounts are as they were.
C3_Withdrawal ==
    (last.kind = "Withdrawal" /\ ~pre.account.locked) =>
        /\ client \in DOMAIN accounts
        /\ account.available =
               IF last.data.amount > pre.account.available
               THEN pre.account.available
               ELSE pre.account.available - last.data.amount
        /\ (account.available # pre.account.available => account.available >= 0)
        /\ account.held = pre.account.held
        /\ account.locked = FALSE
        /\ deposits = before.deposits
        /\ disputes = before.disputes
        /\ \A c \in DOMAIN before.accounts \ {client} :
               c \in DOMAIN accounts /\ accounts[c] = before.accounts[c]

\* A withdrawal of all the available funds was applied
C3_Witness ==
    /\ last.kind = "Withdrawal"
    /\ ~pre.account.locked
    /\ last.data.amount = pre.account.available
    /\ last.data.amount > 0
    /\ account.available = 0

\* C4: Dispute(c, tx) of an unlocked client on its own deposit of A makes
\* held larger by A, available smaller by A and tx disputed; Resolve(c, tx)
\* right after it gives available and held their values from before the
\* dispute and tx is not disputed.
C4_DisputeResolveRoundTrip ==
    /\ chain.phase = "Disputed" =>
           /\ accounts[chain.client].held = chain.held + chain.amount
           /\ accounts[chain.client].available = chain.available - chain.amount
           /\ chain.tx \in disputes
    /\ chain.phase = "Resolved" =>
           /\ accounts[chain.client].held = chain.held
           /\ accounts[chain.client].available = chain.available
           /\ chain.tx \notin disputes

\* A dispute and the resolve that follows it were applied
C4_Witness ==
    /\ chain.phase = "Resolved"
    /\ chain.amount # 0
    /\ last = Transaction("Resolve", TransactionData(chain.client, chain.tx))

\* The last transaction is the chargeback that ends Deposit, Dispute,
\* Chargeback of one client on one id
JustClosed ==
    /\ chain.phase = "Chargedback"
    /\ chain.fresh
    /\ chain.client = client
    /\ last.kind = "Chargeback"

\* C5 as stated: after Deposit(c, tx, A), Dispute(c, tx), Chargeback(c, tx)
\* from an unlocked account with held = 0, held is 0, available is what it
\* was right before the dispute, the account is locked, and every later
\* transaction of c changes nothing.
C5_AvailableAsBeforeDispute ==
    /\ (chain.phase = "Chargedback" /\ chain.fresh) =>
           /\ accounts[chain.client].held = 0
           /\ accounts[chain.client].available = chain.available
           /\ accounts[chain.client].locked
    /\ (client \in closed /\ ~JustClosed) => self = before

\* C5 amended: after Deposit(c, tx, A), Dispute(c, tx), Chargeback(c, tx)
\* from an unlocked account with held = 0, held is 0, available is what it
\* was right before the dispute minus A (its value before the deposit), the
\* account is locked, and every later transaction of c changes nothing.
C5_AvailableAsBeforeDeposit ==
    /\ (chain.phase = "Chargedback" /\ chain.fresh) =>
           /\ accounts[chain.client].held = 0
           /\ accounts[chain.client].available = chain.available - chain.amount
           /\ accounts[chain.client].locked
    /\ (client \in closed /\ ~JustClosed) => self = before

\* The three transactions were applied and the client sent one more
C5_Witness ==
    /\ client \in closed
    /\ ~JustClosed
    /\ last.kind = "Deposit"
    /\ accounts[client].locked
    /\ accounts[client].held = 0

\* C6: Dispute(c2, tx) on a deposit record owned by another client c1 leaves
\* c1's account, the disputed-set and the deposit index as they were and
\* changes no balance of c2; the whole ledger is as it was when c2 had an
\* account.
C6_CrossClientDispute ==
    (/\ last.kind = "Dispute"
     /\ pre.deposit # << >>
     /\ pre.deposit[1].client # client) =>
        /\ pre.deposit[1].client \in DOMAIN before.accounts
        /\ pre.deposit[1].client \in DOMAIN accounts
        /\ accounts[pre.deposit[1].client] = before.accounts[pre.deposit[1].client]
        /\ disputes = before.disputes
        /\ deposits = before.deposits
        /\ NoBalanceChanged
        /\ (pre.exists => self = before)

\* An unlocked client with an account disputed another client's deposit
C6_Witness ==
    /\ last.kind = "Dispute"
    /\ pre.deposit # << >>
    /\ pre.deposit[1].client # client
    /\ pre.exists
    /\ ~pre.account.locked
    /\ pre.account.available # 0

\* C7: a dispute of an id that has no deposit record changes no account's
\* available, held or locked and does not put the id in the disputed-set;
\* the whole ledger is as it was when the client had an account.
C7_DisputeWithoutDeposit ==
    (last.kind = "Dispute" /\ pre.deposit = << >>) =>
        /\ NoBalanceChanged
        /\ last.data.tx \notin disputes
        /\ disputes = before.disputes
        /\ deposits = before.deposits
        /\ (pre.exists => self = before)

\* An unlocked client with funds disputed an id that has no deposit record
C7_Witness ==
    /\ last.kind = "Dispute"
    /\ pre.deposit = << >>
    /\ pre.exists
    /\ ~pre.account.locked
    /\ pre.account.available # 0

\* C8: a deposit on an unlocked account adds its amount to available and
\* makes the record at tx (client, amount), whatever was there; the record
\* at every id is the most recent deposit applied with that id (recorded),
\* and a dispute of an unlocked client moves that record's amount when that
\* record's owner is the client and nothing otherwise.
C8_DepositLastWriteWins ==
    /\ (last.kind = "Deposit" /\ ~pre.account.locked) =>
           /\ account.available = pre.account.available + last.data.amount
           /\ last.data.tx \in DOMAIN deposits
           /\ deposits[last.data.tx].client = client
           /\ deposits[last.data.tx].amount = last.data.amount
           /\ DOMAIN deposits = (DOMAIN before.deposits) \cup {last.data.tx}
           /\ \A tx \in DOMAIN before.deposits \ {last.data.tx} :
                  deposits[tx] = before.deposits[tx]
    /\ DOMAIN deposits = DOMAIN recorded
    /\ \A tx \in DOMAIN recorded : deposits[tx] = recorded[tx]
    /\ (/\ last.kind = "Dispute"
        /\ ~pre.account.locked
        /\ last.data.tx \in DOMAIN recorded) =>
           IF recorded[last.data.tx].client = client
           THEN /\ account.available =
                       pre.account.available - recorded[last.data.tx].amount
                /\ account.held = pre.account.held + recorded[last.data.tx].amount
                /\ last.data.tx \in disputes
           ELSE /\ account.available = pre.account.available
                /\ account.held = pre.account.held

\* A deposit was applied with the id of an earlier deposit of another client
\* and another amount
C8_Witness ==
    /\ last.kind = "Deposit"
    /\ ~pre.account.locked
    /\ pre.deposit # << >>
    /\ pre.deposit[1].client # client
    /\ pre.deposit[1].amount # last.data.amount
    /\ account.available = pre.account.available + last.data.amount

\* C9: an account that is locked stays locked and keeps its available and
\* held under every later transaction of every client.
C9_LockedIsFrozen ==
    \A c \in DOMAIN before.accounts :
        before.accounts[c].locked =>
            /\ c \in DOMAIN accounts
            /\ accounts[c].locked
            /\ accounts[c].available = before.accounts[c].available
            /\ accounts[c].held = before.accounts[c].held

\* While one account was locked, a transaction of another client changed the
\* ledger
C9_Witness ==
    \E c \in DOMAIN before.accounts :
        /\ before.accounts[c].locked
        /\ client # c
        /\ last.kind # "None"
        /\ self # before

\* C10: the concrete scenario, from an empty ledger: after the two deposits
\* client 1 has available 20.0; after the dispute 10.0 and held 10.0; after
\* the resolve 20.0 and 0; after the second dispute and the chargeback 10.0,
\* 0 and locked; the deposit that follows changes nothing and leaves no
\* record at id 3.
C10_ConcreteScenario ==
    /\ scenario = 2 => accounts[1].available = 200000
    /\ scenario = 3 => accounts[1].available = 100000 /\ accounts[1].held = 100000
    /\ scenario = 4 => accounts[1].available = 200000 /\ accounts[1].held = 0
    /\ scenario = 6 =>
           /\ accounts[1].available = 100000
           /\ accounts[1].held = 0
           /\ accounts[1].locked
    /\ scenario = 7 =>
           /\ accounts[1].available = 100000
           /\ accounts[1].held = 0
           /\ accounts[1].locked
           /\ 3 \notin DOMAIN deposits
           /\ self = before

\* The seven transactions of the scenario were applied
C10_Witness == scenario = Len(Scenario)

\* C16: a resolve or a chargeback of an id that is not in the disputed-set
\* changes no account's available, held or locked (none becomes locked) and
\* leaves the disputed-set and the deposit index as they were.
C16_NotDisputedNoOp ==
    (last.kind \in {"Resolve", "Chargeback"} /\ ~pre.disputed) =>
        /\ NoBalanceChanged
        /\ \A c \in DOMAIN accounts :
               accounts[c].locked => (c \in DOMAIN before.accounts
                                      /\ before.accounts[c].locked)
        /\ disputes = before.disputes
        /\ deposits = before.deposits

\* An unlocked client sent a chargeback of its own deposit, which was not
\* disputed
C16_Witness ==
    /\ last.kind = "Chargeback"
    /\ ~pre.disputed
    /\ ~pre.account.locked
    /\ pre.deposit # << >>
    /\ pre.deposit[1].client = client
    /\ pre.deposit[1].amount # 0

\* The last transaction is a chargeback of an unlocked client on its own
\* disputed deposit
SuccessfulChargeback ==
    /\ last.kind = "Chargeback"
    /\ ~pre.account.locked
    /\ pre.disputed
    /\ pre.deposit # << >>
    /\ pre.deposit[1].client = client

\* C17: a successful chargeback of a deposit of A takes A from held, leaves
\* available as it was right before the chargeback, locks the account and
\* takes tx out of the disputed-set; after a dispute and the chargeback that
\* follows it available is lower by A than before the dispute.
C17_SuccessfulChargeback ==
    /\ SuccessfulChargeback =>
           /\ account.held = pre.account.held - pre.deposit[1].amount
           /\ account.available = pre.account.available
           /\ account.locked
           /\ last.data.tx \notin disputes
           /\ disputes = before.disputes \ {last.data.tx}
    /\ chain.phase = "Chargedback" =>
           /\ accounts[chain.client].available = chain.available - chain.amount
           /\ accounts[chain.client].held = chain.held

\* A dispute of a deposit and the chargeback that follows it were applied
C17_Witness ==
    /\ SuccessfulChargeback
    /\ chain.phase = "Chargedback"
    /\ chain.amount > 0
    /\ account.available = pre.account.available
    /\ account.locked

\* C18: a transaction changes available, held or locked of no account but
\* its own client's, and adds or removes at most one id of the disputed-set.
C18_OneAccountOneDispute ==
    last.kind # "None" =>
        /\ \A c \in (DOMAIN accounts) \ {client} :
               c \in DOMAIN before.accounts /\ accounts[c] = before.accounts[c]
        /\ \A c \in DOMAIN before.accounts : c \in DOMAIN accounts
        /\ Cardinality((disputes \ before.disputes)
                       \cup (before.disputes \ disputes)) <= 1

\* A dispute changed its client's account and the disputed-set while the
\* ledger held two accounts
C18_Witness ==
    /\ last.kind = "Dispute"
    /\ Cardinality(DOMAIN before.accounts) = 2
    /\ account # before.accounts[client]
    /\ disputes # before.disputes

\* C19 as stated: the deposit record of an id, once it exists, keeps its
\* client and amount and is never removed, whatever transactions follow.
C19_RecordNeverChanges ==
    \A tx \in DOMAIN before.deposits :
        tx \in DOMAIN deposits /\ deposits[tx] = before.deposits[tx]

\* C19 amended: the deposit record of an id is never removed, and it keeps
\* its client and amount under every transaction but a deposit with the same
\* id applied to an unlocked account, which makes it that deposit.
C19_RecordChangesOnlyByDeposit ==
    \A tx \in DOMAIN before.deposits :
        /\ tx \in DOMAIN deposits
        /\ \/ deposits[tx] = before.deposits[tx]
           \/ /\ last.kind = "Deposit"
              /\ last.data.tx = tx
              /\ ~pre.account.locked
              /\ deposits[tx] = last.data

\* The record of a deposit is there after the chargeback of that deposit
C19_Witness ==
    /\ SuccessfulChargeback
    /\ last.data.tx \in DOMAIN deposits
    /\ deposits[last.data.tx] = pre.deposit[1]
    /\ account.locked

\* C14: a dispute of an unlocked client on its own deposit of A whose id is
\* already disputed again takes A from available and adds A to held and
\* leaves the disputed-set as it was; the one resolve or chargeback that
\* follows two such disputes in a row undoes one A only: the other A stays
\* in held and tx is not disputed.
C14_ReentrantDispute ==
    /\ (/\ last.kind = "Dispute"
        /\ ~pre.account.locked
        /\ pre.disputed
        /\ pre.deposit # << >>
        /\ pre.deposit[1].client = client) =>
           /\ account.available = pre.account.available - pre.deposit[1].amount
           /\ account.held = pre.account.held + pre.deposit[1].amount
           /\ disputes = before.disputes
           /\ last.data.tx \in disputes
    /\ (chain.phase = "Disputed" /\ chain.depth = 2) =>
           /\ accounts[chain.client].held = chain.base_held + 2 * chain.amount
           /\ accounts[chain.client].available
                  = chain.base_available - 2 * chain.amount
    /\ (chain.phase = "Resolved" /\ chain.depth = 2) =>
           /\ accounts[chain.client].held = chain.base_held + chain.amount
           /\ accounts[chain.client].available = chain.base_available - chain.amount
           /\ chain.tx \notin disputes
    /\ (chain.phase = "Chargedback" /\ chain.depth = 2) =>
           /\ accounts[chain.client].held = chain.base_held + chain.amount
           /\ accounts[chain.client].available
                  = chain.base_available - 2 * chain.amount
           /\ chain.tx \notin disputes

\* Two disputes of one deposit and one resolve were applied in a row
C14_Witness ==
    /\ chain.phase = "Resolved"
    /\ chain.depth = 2
    /\ chain.amount > 0
    /\ accounts[chain.client].held = chain.base_held + chain.amount
    /\ chain.tx \notin disputes

\* C20: after a successful dispute and the successful resolve that follows
\* it, tx is not disputed and its deposit record is as it was, and a further
\* dispute of the client has the effect of the first one (A leaves available,
\* A enters held, tx is disputed), after any number of such rounds.
C20_ResolvedIsDeposited ==
    /\ chain.phase = "Resolved" =>
           /\ chain.tx \notin disputes
           /\ chain.tx \in DOMAIN deposits
           /\ deposits[chain.tx].client = chain.client
           /\ deposits[chain.tx].amount = chain.amount
    /\ (chain.phase = "Disputed" /\ chain.rounds >= 1 /\ chain.depth = 1) =>
           /\ accounts[chain.client].available = chain.available - chain.amount
           /\ accounts[chain.client].held = chain.held + chain.amount
           /\ chain.tx \in disputes
           /\ ~pre.disputed
           /\ deposits[chain.tx].amount = chain.amount

\* The third dispute of one deposit was applied after two rounds of dispute
\* and resolve
C20_Witness ==
    /\ chain.phase = "Disputed"
    /\ chain.rounds = 2
    /\ chain.depth = 1
    /\ chain.amount > 0

\* C15: a resolve or a chargeback of an unlocked client c2 on a disputed
\* deposit owned by another client c1 takes tx out of the disputed-set and
\* changes no account's available, held or locked, so the amount stays in
\* c1's held; until a dispute names tx again tx is not disputed, and a
\* resolve or chargeback of tx then changes nothing.
C15_ForeignSettleStrands ==
    /\ ForeignSettle(before, last) =>
           /\ last.data.tx \notin disputes
           /\ disputes = before.disputes \ {last.data.tx}
           /\ deposits = before.deposits
           /\ NoBalanceChanged
           /\ accounts[pre.deposit[1].client].held
                  = before.accounts[pre.deposit[1].client].held
    /\ \A tx \in stranded : tx \notin disputes
    /\ (/\ last.kind \in {"Resolve", "Chargeback"}
        /\ last.data.tx \in stranded
        /\ ~ForeignSettle(before, last)) =>
           /\ NoBalanceChanged
           /\ disputes = before.disputes
           /\ deposits = before.deposits

\* After another client's resolve or chargeback took its disputed deposit
\* out of dispute, the unlocked owner sent a resolve of it, with funds held
C15_Witness ==
    /\ last.kind = "Resolve"
    /\ last.data.tx \in stranded
    /\ ~ForeignSettle(before, last)
    /\ ~pre.account.locked
    /\ pre.deposit # << >>
    /\ pre.deposit[1].client = client
    /\ pre.deposit[1].amount > 0
    /\ account.held = pre.deposit[1].amount

\* The number a rendered Decimal stands for, in ten-thousandths
Value(rendered) ==
    (IF rendered.negative THEN -1 ELSE 1)
        * (rendered.integer * 10000 + rendered.fraction)

\* C11: the output has exactly one row for each client id that some
\* transaction named (the clients of net), in strictly ascending order of
\* client id; the total of each row is its available plus its held and its
\* locked is the lock flag of the account.
C11_OutputRows ==
    written # << >> =>
        LET rows == written[1] IN
        /\ {rows[i].client : i \in DOMAIN rows} = DOMAIN net
        /\ Len(rows) = Cardinality(DOMAIN net)
        /\ \A i, j \in DOMAIN rows : i < j => rows[i].client < rows[j].client
        /\ \A i \in DOMAIN rows :
               /\ Value(rows[i].total)
                      = Value(rows[i].available) + Value(rows[i].held)
               /\ Value(rows[i].available) = accounts[rows[i].client].available
               /\ Value(rows[i].held) = accounts[rows[i].client].held
               /\ rows[i].locked = accounts[rows[i].client].locked

\* The output of a ledger of two accounts, one of them with funds held
C11_Witness ==
    /\ written # << >>
    /\ Len(written[1]) = 2
    /\ \E i \in DOMAIN written[1] :
          /\ Value(written[1][i].held) # 0
          /\ Value(written[1][i].total) # Value(written[1][i].available)

\* The header line of the input, and the text of its fields
header == reader.header

HeaderTexts == [i \in DOMAIN header |-> header[i].text]

\* The lower-case form of a header word
to_lowercase(str) ==
    CASE str = "Type" -> "type"
      [] str = "Client" -> "client"
      [] str = "Tx" -> "tx"
      [] str = "Amount" -> "amount"
      [] OTHER -> str

\* from_reader was called and reader.headers() read the header line
HeaderRead == iterator # << >> /\ iterator[1] # Err("IO")

\* Nothing was read after the header and no transaction was applied
NothingProduced ==
    /\ item = << >>
    /\ reader.read = 0
    /\ steps = 0
    /\ self = Bank

\* C13 as stated: from_reader accepts the input exactly when the header
\* fields are type, client, tx, amount in that order, compared without
\* regard to case and surrounding whitespace; any other header yields
\* InvalidHeader and no transaction is produced or applied.
C13_HeaderCaseInsensitive ==
    HeaderRead =>
        /\ iterator[1].ok <=>
             [i \in DOMAIN header |-> to_lowercase(header[i].text)] = EXPECTED_HEADER
        /\ ~iterator[1].ok =>
             iterator[1] = Err("InvalidHeader") /\ NothingProduced

\* C13, amended: from_reader accepts the input exactly when the header
\* fields, without their surrounding whitespace, are exactly (in this case)
\* type, client, tx, amount in that order; any other header, one that
\* differs only in case included, yields InvalidHeader and no transaction is
\* produced or applied.
C13_HeaderExact ==
    HeaderRead =>
        /\ iterator[1].ok <=> HeaderTexts = EXPECTED_HEADER
        /\ ~iterator[1].ok =>
             iterator[1] = Err("InvalidHeader") /\ NothingProduced

\* A header that differs from the expected one only in case was rejected
C13_Witness ==
    /\ HeaderRead
    /\ HeaderTexts = << "Type", "Client", "Tx", "Amount" >>
    /\ header[1].lead = 1
    /\ iterator[1] = Err("InvalidHeader")

\* The record next read last, the transaction it produced, and the record's
\* amount field
Produced == item # << >> /\ item[1].some /\ item[1].result.ok

produced == item[1].result.value

amount_field == reader.record[1][4]

\* C12: the amount of a Deposit or Withdrawal the source produces has at
\* most 4 fractional digits; an amount spelled with at most 4 digits is
\* unchanged; of more digits the ones after the fourth are dropped, toward
\* zero and never half-up (1.12345 and 1.12346 both become 1.1234). A
\* Dispute, Resolve or Chargeback carries no amount, whatever the amount
\* field holds.
C12_AmountTruncated ==
    Produced =>
        IF produced.kind \in {"Deposit", "Withdrawal"}
        THEN LET source == amount_field.text[1]
                 amount == produced.data.amount
                 unit == Pow10(source.scale - amount.scale) IN
             /\ amount.scale <= 4
             /\ source.scale <= 4 => amount = source
             /\ source.scale > 4 =>
                  /\ amount.scale = 4
                  /\ amount.mantissa * source.mantissa >= 0
                  /\ Abs(amount.mantissa) * unit <= Abs(source.mantissa)
                  /\ Abs(source.mantissa) < (Abs(amount.mantissa) + 1) * unit
             /\ source \in {Decimal(112345, 5), Decimal(112346, 5)} =>
                  amount = Decimal(11234, 4)
        ELSE /\ produced.kind \in {"Dispute", "Resolve", "Chargeback"}
             /\ DOMAIN produced.data = {"client", "tx"}

\* deposit, 1, 1, 1.12346 was read and produced a deposit of 1.1234
C12_Witness ==
    /\ Produced
    /\ produced.kind = "Deposit"
    /\ amount_field.text = << Decimal(112346, 5) >>
    /\ produced.data.amount = Decimal(11234, 4)


\* The last transaction is a dispute, a resolve or a chargeback that names
\* an id a chargeback had succeeded on before it
NamesChargedback ==
    /\ last.kind \in {"Dispute", "Resolve", "Chargeback"}
    /\ ~OwnChargeback(before, last)
    /\ last.data.tx \in DOMAIN chargedback

\* C21 as stated: after a successful chargeback on tx, tx is never in the
\* disputed-set again and no later dispute, resolve or chargeback of tx
\* changes a balance.
C21_ChargedbackIsTerminal ==
    /\ \A tx \in DOMAIN chargedback : tx \notin disputes
    /\ NamesChargedback =>
           /\ disputes = before.disputes
           /\ NoBalanceChanged

\* C21, amended: after a successful chargeback of client c on tx, c's
\* account is locked, and as long as the deposit record of tx is c's tx is
\* not in the disputed-set and a dispute, resolve or chargeback of tx changes
\* neither the disputed-set nor a balance. (The record stops being c's when
\* another, unlocked client deposits under the same id; that client's dispute
\* then puts tx into the disputed-set again and moves that client's funds.)
C21_TerminalWhileOwned ==
    /\ \A tx \in DOMAIN chargedback :
           /\ chargedback[tx] \in DOMAIN accounts
           /\ accounts[chargedback[tx]].locked
           /\ tx \in DOMAIN deposits
           /\ deposits[tx].client = chargedback[tx] => tx \notin disputes
    /\ (NamesChargedback
          /\ before.deposits[last.data.tx].client = chargedback[last.data.tx]) =>
           /\ disputes = before.disputes
           /\ deposits = before.deposits
           /\ NoBalanceChanged

\* After a chargeback succeeded on tx, another client disputed tx, which
\* changed nothing because the record of tx is the locked client's
C21_Witness ==
    /\ NamesChargedback
    /\ last.kind = "Dispute"
    /\ client # chargedback[last.data.tx]
    /\ before.deposits[last.data.tx].client = chargedback[last.data.tx]
    /\ last.data.tx \notin disputes


\* C22: a transaction of any kind leaves an account for its client; when the
\* client had none the account is zero, zero, unlocked plus the
\* transaction's effect, which is the amount of a deposit, the amount taken
\* by a withdrawal that 0 covers, and nothing for a dispute, resolve or
\* chargeback (the tx is then unknown or another client's); no other account
\* is created and none is deleted.
C22_LazyAccount ==
    last.kind # "None" =>
        /\ DOMAIN accounts = (DOMAIN before.accounts) \cup {client}
        /\ ~pre.exists =>
               account =
                   [Account EXCEPT
                      !.available =
                          CASE last.kind = "Deposit" -> last.data.amount
                            [] last.kind = "Withdrawal" ->
                                 IF last.data.amount <= 0
                                 THEN 0 - last.data.amount ELSE 0
                            [] OTHER -> 0]

\* A client without an account sent a chargeback of another client's
\* disputed deposit
C22_Witness ==
    /\ last.kind = "Chargeback"
    /\ ~pre.exists
    /\ pre.disputed
    /\ account = Account
    /\ DOMAIN accounts # DOMAIN before.accounts


\* C23: every id in the disputed-set has a deposit record, and no record is
\* ever removed; so when a resolve or a chargeback of an unlocked client
\* finds its tx in the disputed-set, the lookup of the deposit finds a record.
C23_DisputesHaveDeposits ==
    /\ disputes \subseteq DOMAIN deposits
    /\ DOMAIN before.deposits \subseteq DOMAIN deposits
    /\ (/\ last.kind \in {"Resolve", "Chargeback"}
        /\ ~pre.account.locked
        /\ pre.disputed) => pre.deposit # << >>

\* A resolve found its tx in the disputed-set while another id, never
\* disputed, has a record too
C23_Witness ==
    /\ last.kind = "Resolve"
    /\ ~pre.account.locked
    /\ pre.disputed
    /\ pre.deposit # << >>
    /\ disputes # DOMAIN deposits


\* The available funds of a client before the last transaction, 0 without
\* an account
available_before(c) ==
    IF c \in DOMAIN before.accounts THEN before.accounts[c].available ELSE 0

\* C24 as stated: with all amounts above zero, the available funds of every
\* account are >= 0 in every reachable state.
C24_AvailableNeverNegative ==
    \A c \in DOMAIN accounts : accounts[c].available >= 0

\* C24, amended: with all amounts above zero, a deposit, a withdrawal, a
\* resolve or a chargeback never takes the available funds of an account
\* below zero nor lowers them when they are below zero; only a dispute of
\* the client on its own deposit does, because it takes the deposit's amount
\* from available without comparing the two.
C24_OnlyDisputeOverdraws ==
    \A c \in DOMAIN accounts :
        (accounts[c].available < 0 /\ accounts[c].available < available_before(c)) =>
            /\ OwnDispute(before, last)
            /\ c = client
            /\ accounts[c].available
                   = available_before(c) - before.deposits[last.data.tx].amount

\* A client withdrew all it had deposited and then disputed the deposit,
\* which left its available funds below zero
C24_Witness ==
    /\ OwnDispute(before, last)
    /\ ~pre.disputed
    /\ pre.account.available = 0
    /\ account.available < 0
    /\ account.available + account.held = 0


\* C25 as stated: with all amounts above zero, the held funds of every
\* account are >= 0 in every reachable state, also after a deposit reused an
\* id that was in the disputed-set.
C25_HeldNeverNegative ==
    \A c \in DOMAIN accounts : accounts[c].held >= 0

\* C25, amended: with all amounts above zero, as long as no deposit was
\* applied under an id that was in the disputed-set at that moment, the held
\* funds of every account are >= 0 and cover the amount of every disputed
\* deposit of the account. (After such a deposit a resolve or chargeback
\* takes the new record's amount from the held funds of the new record's
\* client, which can leave them below zero.)
C25_HeldCoversDisputes ==
    ~reused =>
        /\ \A c \in DOMAIN accounts : accounts[c].held >= 0
        /\ \A tx \in disputes :
               accounts[deposits[tx].client].held >= deposits[tx].amount

\* Without a deposit under a disputed id: a client resolved a dispute of a
\* deposit whose id it had used for an earlier deposit of another amount
C25_Witness ==
    /\ ~reused
    /\ last.kind = "Resolve"
    /\ pre.disputed
    /\ pre.deposit # << >>
    /\ pre.deposit[1].client = client
    /\ ~pre.account.locked
    /\ account.held = 0
    /\ net[client] > pre.deposit[1].amount

====
